---- MODULE Spec2Model ----
(***************************************************************************)
(* Model of the AirBnB data processor: the AirBnBDataHandler engine        *)
(* (src/AirBnBDataHandler.js) and the console shell startUI                *)
(* (src/unnamed/part_000, the repository's ui.js and index.js).            *)
(*                                                                         *)
(* JavaScript strings are sequences of one-character strings, so that      *)
(* parsing, trimming and substring search are computed, not assumed.       *)
(* A property that is missing from an object reads as Undefined.           *)
(* JavaScript numbers are exact rationals [kind, num, den]; NaN, null and  *)
(* a thrown TypeError are values of the same shape with another kind.      *)
(***************************************************************************)
EXTENDS Integers, Sequences, FiniteSets, TLC

VARIABLES handlers, call, ret, file, ui

vars == <<handlers, call, ret, file, ui>>

(***************************************************************************)
(* Bounds of the model.                                                    *)
(***************************************************************************)
\* longest record sequence a table is drawn with
MaxLen == 2
\* most handler objects a run of the engine creates
MaxHandlers == 2
\* most menu selections of one shell session
MaxSelections == 3

(***************************************************************************)
(* Strings and values.                                                     *)
(***************************************************************************)
\* the value of a property the object does not have
Undefined == <<"undefined">>

\* String(undefined), as property keys and parseFloat/parseInt see it
StringOf(v) ==
  IF v = Undefined THEN <<"u", "n", "d", "e", "f", "i", "n", "e", "d">> ELSE v

Digits == {"0", "1", "2", "3", "4", "5", "6", "7", "8", "9"}

DigitVal(c) ==
  CASE c = "0" -> 0 [] c = "1" -> 1 [] c = "2" -> 2 [] c = "3" -> 3
    [] c = "4" -> 4 [] c = "5" -> 5 [] c = "6" -> 6 [] c = "7" -> 7
    [] c = "8" -> 8 [] c = "9" -> 9

WhiteSpace == {" "}

RECURSIVE GCD(_, _)
GCD(a, b) == IF b = 0 THEN a ELSE GCD(b, a % b)

Abs(n) == IF n < 0 THEN -n ELSE n

\* the number n/d (d > 0) in lowest terms
Num(n, d) ==
  LET g == GCD(Abs(n), d)
  IN  [kind |-> "number", num |-> n \div g, den |-> d \div g]

NaN == [kind |-> "NaN", num |-> 0, den |-> 1]
Null == [kind |-> "null", num |-> 0, den |-> 1]
TypeError == [kind |-> "TypeError", num |-> 0, den |-> 1]

IsNumber(x) == x.kind = "number"

\* a <= b on numbers: false as soon as one side is NaN
Leq(a, b) == IsNumber(a) /\ IsNumber(b) /\ a.num * b.den <= b.num * a.den

\* a >= b
Geq(a, b) == Leq(b, a)

\* a === b on numbers: NaN equals nothing
StrictEquals(a, b) == IsNumber(a) /\ IsNumber(b) /\ a = b

\* a + b
Plus(a, b) ==
  IF IsNumber(a) /\ IsNumber(b)
  THEN Num(a.num * b.den + b.num * a.den, a.den * b.den)
  ELSE NaN

\* a / n for a count n > 0
Over(a, n) == IF IsNumber(a) THEN Num(a.num, a.den * n) ELSE NaN

RECURSIVE Pow10(_)
Pow10(k) == IF k = 0 THEN 1 ELSE 10 * Pow10(k - 1)

\* the longest prefix of s made of decimal digits
RECURSIVE TakeDigits(_)
TakeDigits(s) ==
  IF s # <<>> /\ Head(s) \in Digits
  THEN <<Head(s)>> \o TakeDigits(Tail(s))
  ELSE <<>>

\* the value of a sequence of decimal digits
RECURSIVE DigitsValue(_)
DigitsValue(ds) ==
  IF ds = <<>> THEN 0
  ELSE 10 * DigitsValue(SubSeq(ds, 1, Len(ds) - 1)) + DigitVal(ds[Len(ds)])

RECURSIVE TrimStart(_)
TrimStart(s) ==
  IF s # <<>> /\ Head(s) \in WhiteSpace THEN TrimStart(Tail(s)) ELSE s

RECURSIVE TrimEnd(_)
TrimEnd(s) ==
  IF s # <<>> /\ s[Len(s)] \in WhiteSpace
  THEN TrimEnd(SubSeq(s, 1, Len(s) - 1))
  ELSE s

\* String.prototype.trim
Trim(s) == TrimEnd(TrimStart(s))

Drop(s, n) == SubSeq(s, n + 1, Len(s))

\* the global parseFloat: leading white space, a sign, digits, a fraction;
\* parsing stops at the first character that cannot continue the literal.
\* (Exponents and "Infinity" need letters the model's strings do not use as
\* such: no input of the model spells them.)
parseFloat(v) ==
  LET s     == TrimStart(StringOf(v))
      neg   == s # <<>> /\ Head(s) = "-"
      body  == IF s # <<>> /\ Head(s) \in {"-", "+"} THEN Tail(s) ELSE s
      int   == TakeDigits(body)
      rest  == Drop(body, Len(int))
      frac  == IF rest # <<>> /\ Head(rest) = "." THEN TakeDigits(Tail(rest)) ELSE <<>>
      mag   == DigitsValue(int) * Pow10(Len(frac)) + DigitsValue(frac)
  IN  IF int = <<>> /\ frac = <<>> THEN NaN
      ELSE Num(IF neg THEN -mag ELSE mag, Pow10(Len(frac)))

\* the global parseInt with no radix: leading white space, a sign, digits
parseInt(v) ==
  LET s     == TrimStart(StringOf(v))
      neg   == s # <<>> /\ Head(s) = "-"
      body  == IF s # <<>> /\ Head(s) \in {"-", "+"} THEN Tail(s) ELSE s
      int   == TakeDigits(body)
  IN  IF int = <<>> THEN NaN
      ELSE Num(IF neg THEN -DigitsValue(int) ELSE DigitsValue(int), 1)

\* priceStr.replace(/[^0-9.]/g, '')
StripNonPrice(s) == SelectSeq(s, LAMBDA c : c \in Digits \/ c = ".")

extractPrice(priceStr) ==
  IF priceStr = Undefined THEN TypeError
  ELSE parseFloat(StripNonPrice(priceStr))

\* String.prototype.includes
Includes(s, p) ==
  \E i \in 1..(Len(s) + 1) :
    /\ i + Len(p) - 1 <= Len(s)
    /\ SubSeq(s, i, i + Len(p) - 1) = p


\* Number.prototype.toString of the integers and NaN that parseInt returns
RECURSIVE DigitsOf(_)
DigitsOf(n) ==
  LET d == CASE n % 10 = 0 -> "0" [] n % 10 = 1 -> "1" [] n % 10 = 2 -> "2"
             [] n % 10 = 3 -> "3" [] n % 10 = 4 -> "4" [] n % 10 = 5 -> "5"
             [] n % 10 = 6 -> "6" [] n % 10 = 7 -> "7" [] n % 10 = 8 -> "8"
             [] n % 10 = 9 -> "9"
  IN  IF n < 10 THEN <<d>> ELSE DigitsOf(n \div 10) \o <<d>>

NumberToString(x) ==
  IF ~IsNumber(x) THEN <<"N", "a", "N">>
  ELSE IF x.num < 0 THEN <<"-">> \o DigitsOf(-x.num)
  ELSE DigitsOf(x.num)

(***************************************************************************)
(* JavaScript objects used as maps: the own properties, as <<key, value>>  *)
(* pairs in the order Object.keys and Object.entries list them: the keys   *)
(* that are array indices first, in ascending numeric order, then the      *)
(* other keys in the order they were created.                              *)
(***************************************************************************)
\* a < b for digit strings without leading zeros, compared as numbers
RECURSIVE DigitsLess(_, _)
DigitsLess(a, b) ==
  IF Len(a) # Len(b) THEN Len(a) < Len(b)
  ELSE IF a = <<>> THEN FALSE
  ELSE IF Head(a) # Head(b) THEN DigitVal(Head(a)) < DigitVal(Head(b))
  ELSE DigitsLess(Tail(a), Tail(b))

\* 2^32 - 1, the first integer that is no array index
IndexLimit == <<"4", "2", "9", "4", "9", "6", "7", "2", "9", "5">>

\* a canonical numeric string below 2^32 - 1
IsArrayIndex(k) ==
  /\ k # <<>>
  /\ \A i \in 1..Len(k) : k[i] \in Digits
  /\ (Len(k) = 1 \/ k[1] # "0")
  /\ DigitsLess(k, IndexLimit)

ObjHas(o, k) == \E i \in 1..Len(o) : o[i][1] = k

ObjGet(o, k) == o[CHOOSE i \in 1..Len(o) : o[i][1] = k][2]

\* where a new key k goes among the properties of o
InsertAt(o, k) ==
  IF IsArrayIndex(k)
  THEN 1 + Cardinality({i \in 1..Len(o) :
              IsArrayIndex(o[i][1]) /\ DigitsLess(o[i][1], k)})
  ELSE Len(o) + 1

\* o[k] = v
ObjSet(o, k, v) ==
  IF ObjHas(o, k)
  THEN [i \in 1..Len(o) |-> IF o[i][1] = k THEN <<k, v>> ELSE o[i]]
  ELSE LET at == InsertAt(o, k)
       IN  SubSeq(o, 1, at - 1) \o <<<<k, v>>>> \o SubSeq(o, at, Len(o))

(***************************************************************************)
(* Listings and tables.                                                    *)
(***************************************************************************)
Fields == {"price", "room_type", "bedrooms", "review_scores_rating",
           "host_id", "host_location"}

Listing(p, r, b, s, h, l) ==
  [price |-> p, room_type |-> r, bedrooms |-> b, review_scores_rating |-> s,
   host_id |-> h, host_location |-> l]

\* the listings tables are drawn from: priced, blank, unparsable and missing
\* fields; numeric and other host identifiers
Listings ==
  { Listing(<<"$", "9", "0">>, <<"P">>, <<"2">>, <<"4", ".", "5">>,
            <<"1", "0">>, <<"P", "a">>),
    Listing(<<"$", "1", ",", "2", "0", "0", ".", "5", "0">>, <<"E">>, <<"2">>,
            <<"3">>, <<"2">>, <<"p", "a">>),
    Listing(<<" ">>, <<"P">>, <<"1">>, <<>>, <<"A">>, <<"P", "a">>),
    Listing(<<"N", "/", "A">>, <<"E">>, <<>>, <<"4", ".", "5">>, <<"B">>,
            <<"a">>),
    Listing(Undefined, <<>>, <<"3">>, Undefined, <<"0", "7">>, Undefined),
    Listing(<<>>, <<"P">>, <<"2">>, <<"5">>, <<"A">>, <<"P", "a">>) }

RECURSIVE SeqsUpTo(_, _)
SeqsUpTo(S, n) ==
  IF n = 0 THEN {<<>>}
  ELSE LET shorter == SeqsUpTo(S, n - 1)
       IN  shorter \cup {Append(t, x) : t \in shorter, x \in S}

Tables == SeqsUpTo(Listings, MaxLen)

(***************************************************************************)
(* The engine: AirBnBDataHandler(data).                                    *)
(***************************************************************************)
\* an optional value: <<>> when the key is absent or undefined, else <<v>>
Absent == <<>>
Present(v) == <<v>>

Criteria(p, r, b, s) ==
  [price |-> p, room_type |-> r, bedrooms |-> b, review_scores_rating |-> s]

Returned(d) == [threw |-> FALSE, data |-> d]
Thrown == [threw |-> TRUE, data |-> <<>>]

\* if (criteria.price !== undefined) filteredData = filteredData.filter(...)
PricePass(d, criteria) ==
  IF criteria.price = Absent THEN Returned(d)
  ELSE IF \E i \in 1..Len(d) : extractPrice(d[i].price) = TypeError THEN Thrown
  ELSE Returned(SelectSeq(d, LAMBDA listing :
                  Leq(extractPrice(listing.price), criteria.price[1])))

\* if (criteria.room_type) ...: undefined and the empty string are falsy
RoomTypePass(d, criteria) ==
  IF criteria.room_type = Absent \/ criteria.room_type[1] = <<>> THEN d
  ELSE SelectSeq(d, LAMBDA listing : listing.room_type = criteria.room_type[1])

\* if (criteria.bedrooms !== undefined) ...
BedroomsPass(d, criteria) ==
  IF criteria.bedrooms = Absent THEN d
  ELSE SelectSeq(d, LAMBDA listing :
         StrictEquals(parseInt(listing.bedrooms), criteria.bedrooms[1]))

\* if (criteria.review_scores_rating !== undefined) ...
RatingPass(d, criteria) ==
  IF criteria.review_scores_rating = Absent THEN d
  ELSE SelectSeq(d, LAMBDA listing :
         Geq(parseFloat(listing.review_scores_rating),
             criteria.review_scores_rating[1]))

\* filter(criteria) on a handler over data d: the data of the new handler,
\* or the TypeError extractPrice raised
filter(d, criteria) ==
  LET priced == PricePass(d, criteria)
  IN  IF priced.threw THEN Thrown
      ELSE Returned(RatingPass(BedroomsPass(RoomTypePass(priced.data, criteria),
                                            criteria), criteria))

\* StatsReduce with a fault: skips a listing only when its price is missing
\* or the empty string, without trimming it
RECURSIVE StatsReduce_NoTrim(_, _)
StatsReduce_NoTrim(acc, d) ==
  IF d = <<>> THEN acc
  ELSE LET curr == Head(d)
       IN  IF curr.price = Undefined \/ curr.price = <<>>
           THEN StatsReduce_NoTrim(acc, Tail(d))
           ELSE LET priceValue == extractPrice(curr.price)
                    bedCount   == NumberToString(parseInt(curr.bedrooms))
                    old        == IF ObjHas(acc, bedCount) THEN ObjGet(acc, bedCount)
                                  ELSE [sum |-> Num(0, 1), count |-> 0]
                IN  StatsReduce_NoTrim(ObjSet(acc, bedCount,
                                              [sum |-> Plus(old.sum, priceValue),
                                               count |-> old.count + 1]),
                                       Tail(d))

\* the reduce of computeStats: acc after the listings d, from acc
RECURSIVE StatsReduce(_, _)
StatsReduce(acc, d) ==
  IF d = <<>> THEN acc
  ELSE LET curr == Head(d)
       IN  IF curr.price = Undefined \/ curr.price = <<>> \/ Trim(curr.price) = <<>>
           THEN StatsReduce(acc, Tail(d))
           ELSE LET priceValue == extractPrice(curr.price)
                    bedCount   == NumberToString(parseInt(curr.bedrooms))
                    old        == IF ObjHas(acc, bedCount) THEN ObjGet(acc, bedCount)
                                  ELSE [sum |-> Num(0, 1), count |-> 0]
                IN  StatsReduce(ObjSet(acc, bedCount,
                                       [sum |-> Plus(old.sum, priceValue),
                                        count |-> old.count + 1]),
                                Tail(d))

computeStats(d) ==
  LET acc == StatsReduce(<<>>, d)
  IN  [count |-> Len(d),
       avgPricePerBedroom |->
         [i \in 1..Len(acc) |->
            <<acc[i][1], IF acc[i][2].count > 0
                         THEN Over(acc[i][2].sum, acc[i][2].count)
                         ELSE Num(0, 1)>>]]

\* the reduce of computeListingsPerHost
RECURSIVE HostReduce(_, _)
HostReduce(acc, d) ==
  IF d = <<>> THEN acc
  ELSE LET hostId == StringOf(Head(d).host_id)
       IN  HostReduce(ObjSet(acc, hostId,
                             (IF ObjHas(acc, hostId) THEN ObjGet(acc, hostId) ELSE 0) + 1),
                      Tail(d))

\* SortByCountDesc with a fault: a sort that is not stable, putting an entry
\* before the entries of equal count
RECURSIVE SortByCountDesc_Unstable(_)
SortByCountDesc_Unstable(entries) ==
  IF entries = <<>> THEN <<>>
  ELSE LET front  == SortByCountDesc_Unstable(SubSeq(entries, 1, Len(entries) - 1))
           x      == entries[Len(entries)]
           at     == 1 + Cardinality({i \in 1..Len(front) : front[i][2] > x[2]})
       IN  SubSeq(front, 1, at - 1) \o <<x>> \o SubSeq(front, at, Len(front))

\* Array.prototype.sort((a, b) => b[1] - a[1]): stable, descending by count
RECURSIVE SortByCountDesc(_)
SortByCountDesc(entries) ==
  IF entries = <<>> THEN <<>>
  ELSE LET front  == SortByCountDesc(SubSeq(entries, 1, Len(entries) - 1))
           x      == entries[Len(entries)]
           at     == 1 + Cardinality({i \in 1..Len(front) : front[i][2] >= x[2]})
       IN  SubSeq(front, 1, at - 1) \o <<x>> \o SubSeq(front, at, Len(front))

computeListingsPerHost(d) == SortByCountDesc(HostReduce(<<>>, d))

filterByHostLocation(d, hostLocation) ==
  IF \E i \in 1..Len(d) : d[i].host_location = Undefined THEN Thrown
  ELSE Returned(SelectSeq(d, LAMBDA listing :
                  Includes(listing.host_location, hostLocation)))


(***************************************************************************)
(* exportResults: JSON.stringify(exportContent, null, 2) and the document  *)
(* read back with JSON.parse.  The document is the tree of JSON values the *)
(* text denotes: JSON.stringify writes a number that is NaN as null and    *)
(* leaves out a property whose value is undefined; strings, finite numbers,*)
(* arrays and objects are written as they are.                             *)
(***************************************************************************)
NoCalculations == [stats |-> Absent, rankings |-> Absent, locationCount |-> Absent]

JsonNumber(x) == IF IsNumber(x) THEN x ELSE Null

JsonListing(l) == [f \in {g \in Fields : l[g] # Undefined} |-> l[f]]

JsonStats(st) ==
  [count |-> st.count,
   avgPricePerBedroom |->
     [i \in 1..Len(st.avgPricePerBedroom) |->
        <<st.avgPricePerBedroom[i][1], JsonNumber(st.avgPricePerBedroom[i][2])>>]]

JSONstringify(exportContent) ==
  [filteredListings |->
     [i \in 1..Len(exportContent.filteredListings) |->
        JsonListing(exportContent.filteredListings[i])],
   calculations |->
     [stats |-> [i \in 1..Len(exportContent.calculations.stats) |->
                   JsonStats(exportContent.calculations.stats[i])],
      rankings |-> exportContent.calculations.rankings,
      locationCount |-> exportContent.calculations.locationCount]]

\* the value JSON.parse builds: a property the document lacks reads undefined
JSONparse(doc) ==
  [filteredListings |->
     [i \in 1..Len(doc.filteredListings) |->
        [f \in Fields |-> IF f \in DOMAIN doc.filteredListings[i]
                          THEN doc.filteredListings[i][f] ELSE Undefined]],
   calculations |-> doc.calculations]

\* the text exportResults hands to writeFile
exportResults(d, calculations) ==
  JSONstringify([filteredListings |-> d, calculations |-> calculations])

(***************************************************************************)
(* The engine as a state machine: a client holding handler objects calls   *)
(* their methods.  handlers[h] is the data of handler object h; call and   *)
(* ret are the last call made and what it returned or threw; file is the   *)
(* document last written.                                                  *)
(***************************************************************************)
NoCriteria == Criteria(Absent, Absent, Absent, Absent)

\* the criteria objects the client passes
PriceArgs == {Absent, Present(Num(100, 1)), Present(NaN)}
RoomTypeArgs == {Absent, Present(<<>>), Present(<<"P">>)}
BedroomsArgs == {Absent, Present(Num(2, 1))}
RatingArgs == {Absent, Present(Num(4, 1))}

CriteriaArgs ==
  {Criteria(p, r, b, s) :
     p \in PriceArgs, r \in RoomTypeArgs, b \in BedroomsArgs, s \in RatingArgs}

Call(op, h, criteria, hostLocation, calculations) ==
  [op |-> op, this |-> h, criteria |-> criteria, hostLocation |-> hostLocation,
   calculations |-> calculations]

NoCall == Call("none", 0, NoCriteria, <<>>, NoCalculations)

Ret(threw, h, stats, ranking) ==
  [threw |-> threw, handler |-> h, stats |-> stats, ranking |-> ranking]

NoRet == Ret(FALSE, 0, Absent, Absent)

UIOff == [pc |-> "off"]

Init ==
  /\ handlers \in {<<t>> : t \in Tables}
  /\ call = NoCall
  /\ ret = NoRet
  /\ file = Absent
  /\ ui = UIOff

\* return AirBnBDataHandler(filteredData), or the exception passes through
NewHandler(r) ==
  /\ handlers' = IF r.threw THEN handlers ELSE Append(handlers, r.data)
  /\ ret' = IF r.threw THEN Ret(TRUE, 0, Absent, Absent)
            ELSE Ret(FALSE, Len(handlers) + 1, Absent, Absent)

\* Filter with a fault: narrows this.data in place and returns this
Filter_InPlace(h, criteria) ==
  LET r == filter(handlers[h], criteria)
  IN  /\ handlers' = IF r.threw THEN handlers ELSE [handlers EXCEPT ![h] = r.data]
      /\ ret' = IF r.threw THEN Ret(TRUE, 0, Absent, Absent)
                ELSE Ret(FALSE, h, Absent, Absent)
      /\ call' = Call("filter", h, criteria, <<>>, NoCalculations)
      /\ UNCHANGED <<file, ui>>

Filter(h, criteria) ==
  LET r == filter(handlers[h], criteria)
  IN  /\ r.threw \/ Len(handlers) < MaxHandlers
      /\ NewHandler(r)
      /\ call' = Call("filter", h, criteria, <<>>, NoCalculations)
      /\ UNCHANGED <<file, ui>>

FilterByHostLocation(h, hostLocation) ==
  LET r == filterByHostLocation(handlers[h], hostLocation)
  IN  /\ r.threw \/ Len(handlers) < MaxHandlers
      /\ NewHandler(r)
      /\ call' = Call("filterByHostLocation", h, NoCriteria, hostLocation,
                      NoCalculations)
      /\ UNCHANGED <<file, ui>>

ComputeStats(h) ==
  /\ call' = Call("computeStats", h, NoCriteria, <<>>, NoCalculations)
  /\ ret' = Ret(FALSE, 0, Present(computeStats(handlers[h])), Absent)
  /\ UNCHANGED <<handlers, file, ui>>

ComputeListingsPerHost(h) ==
  /\ call' = Call("computeListingsPerHost", h, NoCriteria, <<>>, NoCalculations)
  /\ ret' = Ret(FALSE, 0, Absent, Present(computeListingsPerHost(handlers[h])))
  /\ UNCHANGED <<handlers, file, ui>>

\* the calculations object a client passes with handler h: the statistics it
\* computed on h
CalculationsArgs(h) ==
  { [stats |-> Present(computeStats(handlers[h])),
     rankings |-> Absent, locationCount |-> Absent] }

\* await writeFile(...) either completes or rejects; then return this
ExportResults(h, calculations, written) ==
  /\ call' = Call("exportResults", h, NoCriteria, <<>>, calculations)
  /\ file' = IF written THEN Present(exportResults(handlers[h], calculations))
             ELSE file
  /\ ret' = IF written THEN Ret(FALSE, h, Absent, Absent)
            ELSE Ret(TRUE, 0, Absent, Absent)
  /\ UNCHANGED <<handlers, ui>>

\* the criteria a client of the whole interface passes
ClientCriteria ==
  { NoCriteria,
    Criteria(Present(Num(100, 1)), Absent, Absent, Absent),
    Criteria(Absent, Present(<<"P">>), Present(Num(2, 1)), Present(Num(4, 1))) }

ClientLocations == {<<"P">>}

Next ==
  \/ \E h \in 1..MaxHandlers, criteria \in ClientCriteria :
       h <= Len(handlers) /\ Filter(h, criteria)
  \/ \E h \in 1..MaxHandlers, hostLocation \in ClientLocations :
       h <= Len(handlers) /\ FilterByHostLocation(h, hostLocation)
  \/ \E h \in 1..MaxHandlers : h <= Len(handlers) /\ ComputeStats(h)
  \/ \E h \in 1..MaxHandlers : h <= Len(handlers) /\ ComputeListingsPerHost(h)
  \/ \E h \in 1..MaxHandlers, written \in BOOLEAN :
       /\ h <= Len(handlers)
       /\ \E calculations \in CalculationsArgs(h) :
            ExportResults(h, calculations, written)

Spec == Init /\ [][Next]_vars

\* a client that only filters, with every combination of criteria
NextFilter ==
  \E h \in 1..MaxHandlers, criteria \in CriteriaArgs :
    h <= Len(handlers) /\ Filter(h, criteria)

SpecFilter == Init /\ [][NextFilter]_vars


(***************************************************************************)
(* The shell, startUI.  ui.pc is where the session is: at the menu prompt, *)
(* "closed" once the loop was left and rl.close() ran, "crashed" when an   *)
(* exception left startUI (nothing catches it, and rl stays open).         *)
(* ui.handler is the data of the shell's current handler.  ui.last records *)
(* the selection just processed: the answers typed, the current handler's  *)
(* data before it, and the data of the handler a filter call returned.     *)
(***************************************************************************)
\* what loadData yields: csv-parse gives every record the columns of the
\* header row, with trimmed values
LoadedTables ==
  {t \in Tables :
     /\ \A i \in 1..Len(t), f \in Fields :
          t[i][f] # Undefined => Trim(t[i][f]) = t[i][f]
     /\ \A i, j \in 1..Len(t), f \in Fields :
          (t[i][f] = Undefined) = (t[j][f] = Undefined)}

\* what the user types at the prompts
ChoiceAnswers == {<<"1">>, <<"2">>, <<"3">>, <<"4">>, <<"5">>, <<"6">>, <<"7">>,
                  <<" ", "6">>}
PriceAnswers == {<<>>, <<"1", "0", "0">>, <<"a", "b", "c">>}
RoomTypeAnswers == {<<>>, <<"P">>}
BedroomsAnswers == {<<>>, <<"2">>}
RatingAnswers == {<<>>, <<"4">>}
LocationAnswers == {<<"P">>, <<"a">>}

Answers(price, roomType, bedrooms, rating) ==
  [price |-> price, roomType |-> roomType, bedrooms |-> bedrooms, rating |-> rating]

NoAnswers == Answers(<<>>, <<>>, <<>>, <<>>)

Last(choice, answers, location, before, returned) ==
  [choice |-> choice, answers |-> answers, location |-> location,
   before |-> before, returned |-> returned]

\* const filterParams = {...}: x ? parse(x) : undefined
filterParams(a) ==
  Criteria(IF a.price # <<>> THEN Present(parseFloat(a.price)) ELSE Absent,
           IF a.roomType # <<>> THEN Present(a.roomType) ELSE Absent,
           IF a.bedrooms # <<>> THEN Present(parseInt(a.bedrooms)) ELSE Absent,
           IF a.rating # <<>> THEN Present(parseFloat(a.rating)) ELSE Absent)

InitUI ==
  /\ handlers \in {<<t>> : t \in LoadedTables}
  /\ call = NoCall
  /\ ret = NoRet
  /\ file = Absent
  /\ ui = [pc |-> "menu", rl |-> "open", handler |-> handlers[1],
           calculations |-> NoCalculations, selections |-> 0,
           last |-> Last(<<>>, NoAnswers, <<>>, <<>>, Absent)]

\* the menu is shown and a selection read: choice.trim() is what is switched on
AtMenu(choice, selected) ==
  /\ ui.pc = "menu"
  /\ ui.selections < MaxSelections
  /\ Trim(choice) = selected

\* the iteration ends and the loop shows the menu again
BackToMenu(choice, answers, location, returned, handler, calculations) ==
  ui' = [ui EXCEPT !.handler = handler, !.calculations = calculations,
                   !.selections = @ + 1,
                   !.last = Last(Trim(choice), answers, location, ui.handler, returned)]

\* an exception leaves startUI: rl.close() is not reached
Crash(choice, answers, location) ==
  ui' = [ui EXCEPT !.pc = "crashed", !.selections = @ + 1,
                   !.last = Last(Trim(choice), answers, location, ui.handler, Absent)]

\* case '1'
FilterListings(choice, answers) ==
  /\ AtMenu(choice, <<"1">>)
  /\ LET r == filter(ui.handler, filterParams(answers))
     IN  IF r.threw THEN Crash(choice, answers, <<>>)
         ELSE BackToMenu(choice, answers, <<>>, Present(r.data), r.data,
                         ui.calculations)
  /\ UNCHANGED <<handlers, call, ret, file>>

\* case '2'
ComputeStatistics(choice) ==
  /\ AtMenu(choice, <<"2">>)
  /\ BackToMenu(choice, NoAnswers, <<>>, Absent, ui.handler,
                [ui.calculations EXCEPT !.stats = Present(computeStats(ui.handler))])
  /\ UNCHANGED <<handlers, call, ret, file>>

\* case '3'
ComputeRankings(choice) ==
  /\ AtMenu(choice, <<"3">>)
  /\ BackToMenu(choice, NoAnswers, <<>>, Absent, ui.handler,
                [ui.calculations EXCEPT
                   !.rankings = Present(computeListingsPerHost(ui.handler))])
  /\ UNCHANGED <<handlers, call, ret, file>>

\* case '4': the filtered handler is counted, and the current one kept
FilterByLocation(choice, location) ==
  /\ AtMenu(choice, <<"4">>)
  /\ LET r == filterByHostLocation(ui.handler, location)
     IN  IF r.threw THEN Crash(choice, NoAnswers, location)
         ELSE BackToMenu(choice, NoAnswers, location, Present(r.data), ui.handler,
                         [ui.calculations EXCEPT
                            !.locationCount = Present(<<location, Len(r.data)>>)])
  /\ UNCHANGED <<handlers, call, ret, file>>

\* case '5': writeFile completes, or rejects and the exception leaves startUI
ExportToFile(choice, written) ==
  /\ AtMenu(choice, <<"5">>)
  /\ IF written
     THEN /\ file' = Present(exportResults(ui.handler, ui.calculations))
          /\ BackToMenu(choice, NoAnswers, <<>>, Absent, ui.handler, ui.calculations)
     ELSE /\ file' = file
          /\ Crash(choice, NoAnswers, <<>>)
  /\ UNCHANGED <<handlers, call, ret>>

\* case '6': exit = true, the loop ends, rl.close()
Exit(choice) ==
  /\ ui.pc = "menu"
  /\ Trim(choice) = <<"6">>
  /\ ui' = [ui EXCEPT !.pc = "closed", !.rl = "closed",
                      !.last = Last(Trim(choice), NoAnswers, <<>>, ui.handler, Absent)]
  /\ UNCHANGED <<handlers, call, ret, file>>

\* default: 'Invalid option, try again.'
InvalidOption(choice) ==
  /\ ui.pc = "menu"
  /\ ui.selections < MaxSelections
  /\ Trim(choice) \notin {<<"1">>, <<"2">>, <<"3">>, <<"4">>, <<"5">>, <<"6">>}
  /\ BackToMenu(choice, NoAnswers, <<>>, Absent, ui.handler, ui.calculations)
  /\ UNCHANGED <<handlers, call, ret, file>>

startUI ==
  \E choice \in ChoiceAnswers :
    \/ \E price \in PriceAnswers, roomType \in RoomTypeAnswers,
          bedrooms \in BedroomsAnswers, rating \in RatingAnswers :
         FilterListings(choice, Answers(price, roomType, bedrooms, rating))
    \/ ComputeStatistics(choice)
    \/ ComputeRankings(choice)
    \/ \E location \in LocationAnswers : FilterByLocation(choice, location)
    \/ \E written \in BOOLEAN : ExportToFile(choice, written)
    \/ Exit(choice)
    \/ InvalidOption(choice)

SpecUI == InitUI /\ [][startUI]_vars

(***************************************************************************)
(* Claims about the engine.                                                *)
(***************************************************************************)
\* the last call was op and it returned
Did(op) == call.op = op /\ ~ret.threw

\* the data of the receiver of the last call
ThisData == handlers[call.this]

\* the record satisfies every criterion that is present, as the
\* specification states them: room_type for any string given
SatisfiesAll(listing, criteria) ==
  /\ criteria.price # Absent =>
       Leq(extractPrice(listing.price), criteria.price[1])
  /\ criteria.room_type # Absent => listing.room_type = criteria.room_type[1]
  /\ criteria.bedrooms # Absent =>
       StrictEquals(parseInt(listing.bedrooms), criteria.bedrooms[1])
  /\ criteria.review_scores_rating # Absent =>
       Geq(parseFloat(listing.review_scores_rating),
           criteria.review_scores_rating[1])

\* C1: filter(criteria) returns exactly the records of the receiver, in
\* their order, that satisfy every criterion present in criteria, a
\* room_type criterion being applied for any string value.
C1_FilterAppliesEveryCriterion ==
  Did("filter") =>
    handlers[ret.handler] =
      SelectSeq(ThisData, LAMBDA listing : SatisfiesAll(listing, call.criteria))

\* C5: filter never raises an error, whatever the table and the criteria.
C5_FilterNeverRaises == call.op = "filter" => ~ret.threw

\* the criteria of c whose keys are in keys, the others absent
Restrict(c, keys) ==
  [k \in DOMAIN c |-> IF k \in keys THEN c[k] ELSE Absent]

\* filter(c1) and then filter(c2) on the handler it returns
FilterThen(d, c1, c2) ==
  LET first == filter(d, c1)
  IN  IF first.threw THEN Thrown ELSE filter(first.data, c2)

\* what the last call, a filter, came to
Outcome ==
  IF ret.threw THEN Thrown ELSE Returned(handlers[ret.handler])

\* C6: filter is composable: filtering with the criteria c1 merged with c2,
\* over disjoint keys, comes to the same record sequence as filter(c1)
\* followed by filter(c2), in either order; filter({}) yields the source.
C6_FilterComposable ==
  call.op = "filter" =>
    /\ \A keys \in SUBSET DOMAIN call.criteria :
         LET c1 == Restrict(call.criteria, keys)
             c2 == Restrict(call.criteria, DOMAIN call.criteria \ keys)
         IN  FilterThen(ThisData, c1, c2) = Outcome
    /\ call.criteria = NoCriteria => Outcome = Returned(ThisData)

\* C2: no operation changes a handler that exists; filter and
\* filterByHostLocation return a handler that did not exist before the call;
\* exportResults returns its receiver.
C2_ReceiverUnchanged ==
  [][ /\ Len(handlers') >= Len(handlers)
      /\ \A h \in 1..Len(handlers) : handlers'[h] = handlers[h]
      /\ (call'.op \in {"filter", "filterByHostLocation"} /\ ~ret'.threw) =>
           /\ ret'.handler \notin 1..Len(handlers)
           /\ ret'.handler \in 1..Len(handlers')
           /\ ret'.handler # call'.this
      /\ (call'.op = "exportResults" /\ ~ret'.threw) =>
           ret'.handler = call'.this
      /\ call'.op \in {"computeStats", "computeListingsPerHost", "exportResults"} =>
           handlers' = handlers
    ]_vars

\* a filter that narrowed: the new handler holds fewer records than its
\* receiver, which holds what it held
C2_Witness ==
  /\ Did("filter")
  /\ handlers[ret.handler] # <<>>
  /\ Len(handlers[ret.handler]) < Len(ThisData)

\* the records computeStats does not skip: price neither missing nor blank
Priced(d) ==
  {i \in 1..Len(d) : d[i].price # Undefined /\ Trim(d[i].price) # <<>>}

BedroomKey(listing) == NumberToString(parseInt(listing.bedrooms))

RECURSIVE SumOfPrices(_, _)
SumOfPrices(d, idx) ==
  IF idx = {} THEN Num(0, 1)
  ELSE LET i == CHOOSE j \in idx : TRUE
       IN  Plus(extractPrice(d[i].price), SumOfPrices(d, idx \ {i}))

\* C3: computeStats returns count = the number of records, and one average
\* per bedroom count that occurs among the records with a non-blank price:
\* the mean of the parsed prices of exactly those records; blank and missing
\* prices count nowhere; the empty table gives {count: 0, avgPricePerBedroom: {}}.
C3_StatsAreMeansOfPricedRecords ==
  Did("computeStats") =>
    LET d   == ThisData
        st  == ret.stats[1]
        avg == st.avgPricePerBedroom
    IN  /\ st.count = Len(d)
        /\ {avg[i][1] : i \in 1..Len(avg)} = {BedroomKey(d[i]) : i \in Priced(d)}
        /\ \A i, j \in 1..Len(avg) : avg[i][1] = avg[j][1] => i = j
        /\ \A i \in 1..Len(avg) :
             LET bucket == {j \in Priced(d) : BedroomKey(d[j]) = avg[i][1]}
             IN  avg[i][2] = Over(SumOfPrices(d, bucket), Cardinality(bucket))
        /\ d = <<>> => st = [count |-> 0, avgPricePerBedroom |-> <<>>]

\* statistics of a table with a blank price beside a priced record
C3_Witness ==
  /\ Did("computeStats")
  /\ \E i \in 1..Len(ThisData) :
       ThisData[i].price # Undefined /\ ThisData[i].price # <<>>
         /\ Trim(ThisData[i].price) = <<>>
  /\ Priced(ThisData) # {}
  /\ ret.stats[1].count > Cardinality(Priced(ThisData))

\* the position of the first record of host key k
FirstAppearance(d, k) ==
  CHOOSE i \in 1..Len(d) :
    /\ StringOf(d[i].host_id) = k
    /\ \A j \in 1..(i - 1) : StringOf(d[j].host_id) # k

\* one pair per distinct host, with the number of its records
RankingCounts(d, ranking) ==
  /\ {ranking[i][1] : i \in 1..Len(ranking)} =
       {StringOf(d[i].host_id) : i \in 1..Len(d)}
  /\ \A i, j \in 1..Len(ranking) : ranking[i][1] = ranking[j][1] => i = j
  /\ \A i \in 1..Len(ranking) :
       ranking[i][2] =
         Cardinality({j \in 1..Len(d) : StringOf(d[j].host_id) = ranking[i][1]})
  /\ \A i, j \in 1..Len(ranking) : i < j => ranking[i][2] >= ranking[j][2]

Processed(selected) == ui.last.choice = selected /\ ui.pc = "menu"

\* the answer to a numeric prompt, read as the specification reads it: an
\* entry that does not parse to a number counts as left blank
AsIfBlank(answer, parsed) == IF parsed = NaN THEN <<>> ELSE answer

\* C7: in option 1, a numeric prompt answered with a malformed, non-numeric
\* entry imposes no constraint: the working dataset after the filter is what
\* it would be had that prompt been left blank.
C7_MalformedEntryIsNoConstraint ==
  Processed(<<"1">>) =>
    LET a == ui.last.answers
        blanked == Answers(AsIfBlank(a.price, parseFloat(a.price)), a.roomType,
                           AsIfBlank(a.bedrooms, parseInt(a.bedrooms)),
                           AsIfBlank(a.rating, parseFloat(a.rating)))
    IN  ui.handler = filter(ui.last.before, filterParams(blanked)).data

\* C8: after a filter operation, option 1 or option 4, the current handler
\* is the handler the filter call returned; options 2, 3 and 5 leave the
\* current handler as it was.
C8_CurrentHandlerIsFilterResult ==
  /\ (Processed(<<"1">>) \/ Processed(<<"4">>)) => ui.handler = ui.last.returned[1]
  /\ (Processed(<<"2">>) \/ Processed(<<"3">>) \/ Processed(<<"5">>)) =>
       ui.handler = ui.last.before

\* C9: the shell stops only by the exit option, with the input interface
\* closed: whenever it is no longer at the menu, option 6 was selected and
\* rl is closed.
C9_StopsOnlyByExitWithInputClosed ==
  ui.pc # "menu" => ui.last.choice = <<"6">> /\ ui.rl = "closed"

\* C10: the document an export wrote, read back, is the current handler's
\* record sequence and the calculations object passed, nothing lost or changed.
C10_ExportRoundTrip ==
  Processed(<<"5">>) =>
    JSONparse(file[1]) =
      [filteredListings |-> ui.handler, calculations |-> ui.calculations]

====
